---- MODULE Spec2Model ----
(***************************************************************************)
(* Verification model of tdc/chem_utils/oracle.py: the retrosynthesis      *)
(* tree analyzer (tree_analysis), the score modifiers, the synthetic       *)
(* accessibility estimator (SA / calculateScore), the None-handling of the *)
(* public scoring entry points and the lazy initialisation of the shared   *)
(* artifacts.                                                              *)
(*                                                                         *)
(* Numbers.  Depths of tree_analysis advance by 0.5; the model counts them *)
(* in half steps (depth 3 here is 1.5 in the code).  Real-valued scores    *)
(* are exact rationals <<numerator, denominator>> for the modifiers and    *)
(* fixed-point thousandths for the SA estimator.                           *)
(***************************************************************************)
EXTENDS Integers, Sequences, FiniteSets, TLC

VARIABLES
    current,      \* tree_analysis: the search result passed in
    analysis,     \* tree_analysis: the returned 6-tuple, <<>> before the call
    frame,        \* tree_analysis: the local variables of the running loop
    pc,           \* position of the caller: "call", "construct", "apply", "failed", "done"
    args,         \* modifiers: the constructor's arguments
    modifier,     \* modifiers: the constructed object, or the error its constructor raised
    x,            \* modifiers: the raw measurement passed to __call__
    score,        \* modifiers: the value __call__ returned
    fscores,      \* oracles: the module global _fscores, [tag, val]
    globals,      \* oracles: the lazily defined module globals, name -> value
    call,         \* oracles: the last call made, [fn, s, b]
    ret,          \* oracles: what the last call returned or raised
    ncalls,       \* oracles: the number of calls made so far
    tpc,          \* threads: each thread's position in its scoring call
    tfn,          \* threads: the entry point each thread calls
    tret,         \* threads: what each thread's call returned or raised
    loads         \* threads: how often each artifact has been loaded

modVars == <<args, modifier, x, score>>
oracleVars == <<call, ret, ncalls>>
threadVars == <<tpc, tfn, tret, loads>>

vars == <<current, analysis, frame, pc, modVars, fscores, globals, oracleVars, threadVars>>

----------------------------------------------------------------------------
(* Bounds of the model. *)

MaxNodes == 4          \* nodes of a forest that tree_analysis traverses
MaxIgnoredNodes == 2   \* nodes of a forest under an 'error' or 'price' key
HalfRange == 3         \* modifier parameters range over -HalfRange/2 .. HalfRange/2
MaxAtoms == 3          \* atoms of a candidate molecule
MaxCount == 2          \* occurrences of one fragment in a molecule
MaxCalls == 3          \* scoring calls made in one run
NumThreads == 2        \* threads making their first scoring call
MaxChain == 3          \* stages of a chained modifier
MaxFormulaLen == 4     \* characters of a molecular formula
MonotoneWindow == 200  \* thousandths below a rescaled SA value that are compared with it
MaxTrials == 2         \* num_trials of an askcos call

----------------------------------------------------------------------------
(* The state before anything is constructed or called. *)

NoValue == <<>>

ModifierIdle ==
    /\ args = NoValue
    /\ modifier = NoValue
    /\ x = NoValue
    /\ score = NoValue

\* line 330: _fscores = None
FscoresNone == [tag |-> "None", val |-> <<>>]

\* no lazily defined global exists after import
NoGlobals == <<>>

OracleIdle ==
    /\ fscores = FscoresNone
    /\ globals = NoGlobals
    /\ call = NoValue
    /\ ret = NoValue
    /\ ncalls = 0

ThreadsIdle ==
    /\ tpc = NoValue
    /\ tfn = NoValue
    /\ tret = NoValue
    /\ loads = NoValue

----------------------------------------------------------------------------
(* Search results.  A result is a record                                    *)
(*   keys  : the keys present in the dict ("error", "price", "trees")       *)
(*   price : the value under 'price'                                        *)
(*   trees : the list under 'trees', as a sequence of node ids              *)
(*   node  : the nodes, id -> [ppg, plausibility, children (seq of ids)]    *)
(* Node ids grow from parent to child, so every tree is finite.            *)

PpgVals == {0, 3}
PlausibilityVals == {1, 2}
PriceVals == {0, 5}

\* the ids of set S in increasing order
RECURSIVE SortedSeq(_)
SortedSeq(S) ==
    IF S = {} THEN <<>>
    ELSE LET m == CHOOSE a \in S : \A b \in S : a <= b
         IN <<m>> \o SortedSeq(S \ {m})

\* the forest over nodes 1..n in which parent[i] (0 for a root) is i's parent
Forest(n, parent, ppg, pl) ==
    [trees |-> SortedSeq({i \in 1..n : parent[i] = 0}),
     node  |-> [i \in 1..n |->
                 [ppg |-> ppg[i], plausibility |-> pl[i],
                  children |-> SortedSeq({j \in 1..n : parent[j] = i})]]]

\* the parent maps of the forests over nodes 1..n
ParentMaps(n) == {f \in [1..n -> 0..n] : \A i \in 1..n : f[i] < i}

\* A response of the planning tool carries at least one of the three keys.
KeySets == (SUBSET {"error", "price", "trees"}) \ {{}}

\* the search result with keys k, price p and forest f
SearchResult(k, p, f) ==
    [keys |-> k, price |-> p, trees |-> f.trees, node |-> f.node]

----------------------------------------------------------------------------
(* tree_analysis, oracle.py:1073-1131 *)

EmptyStatus == [d \in {} |-> 0]

\* line 1088
ErrorReturn == <<-1, EmptyStatus, 11, -1, -1, -1>>

\* mutant: a price of 0 is taken for "no price"
PriceReturn_ZeroIsAbsent(cur) ==
    IF cur.price # 0 THEN <<0, EmptyStatus, 0, 1, 1, cur.price>>
    ELSE <<0, EmptyStatus, 11, -1, 0, -1>>

\* line 1091
PriceReturn(cur) == <<0, EmptyStatus, 0, 1, 1, cur.price>>

\* mutant: every tree of the list enters the frontier
Frontier_AllTrees(cur) == cur.trees

\* lines 1093-1099: the working frontier, the first tree only
Frontier(cur) ==
    IF Len(cur.trees) # 0 THEN <<cur.trees[1]>> ELSE <<>>

\* mutant: the last tree's root is looked at instead of the first's
RootPriced_LastTree(cur) ==
    Len(cur.trees) # 0 /\ cur.node[cur.trees[Len(cur.trees)]].ppg # 0

\* line 1096: the first tree's root is priced
RootPriced(cur) ==
    Len(cur.trees) # 0 /\ cur.node[cur.trees[1]].ppg # 0

\* line 1097
RootReturn(cur) == <<0, EmptyStatus, 0, 1, 1, cur.node[cur.trees[1]].ppg>>

\* lines 1109-1111: temp, the children of the frontier in order
RECURSIVE ChildrenOf(_, _)
ChildrenOf(cur, items) ==
    IF items = <<>> THEN <<>>
    ELSE cur.node[Head(items)].children \o ChildrenOf(cur, Tail(items))

\* lines 1115-1116
RECURSIVE MulPlausibility(_, _, _)
MulPlausibility(cur, p_score, temp) ==
    IF temp = <<>> THEN p_score
    ELSE MulPlausibility(cur, p_score * cur.node[Head(temp)].plausibility, Tail(temp))

\* lines 1118-1119
RECURSIVE AddPpg(_, _, _)
AddPpg(cur, price, temp) ==
    IF temp = <<>> THEN price
    ELSE AddPpg(cur, price + cur.node[Head(temp)].ppg, Tail(temp))

\* mutant: the whole depths are taken for the half-integer ones
HalfIntegerDepth_Whole(depth) == depth % 2 = 0

\* line 1114: depth % 1 != 0, with depth in half steps
HalfIntegerDepth(depth) == depth % 2 # 0

\* mutant: the loop is left when the frontier itself is empty
LoopBreaks_OnEmptyFrontier(cur, st) == st.current = <<>>

\* line 1112: the frontier has no children
LoopBreaks(cur, st) == Len(ChildrenOf(cur, st.current)) = 0

\* mutant: the child count is recorded under the previous depth
RecordStatus_PreviousDepth(status, depth, num_child) ==
    ((depth - 1) :> num_child) @@ status

\* line 1120: status[depth] = num_child
RecordStatus(status, depth, num_child) == (depth :> num_child) @@ status

\* lines 1106-1121: one pass through the body of the while loop; st is the
\* loop state [depth, p_score, status, price, current, iterations, broke]
Iteration(cur, st) ==
    LET depth == st.depth + 1
        temp  == ChildrenOf(cur, st.current)
        num_child == Len(temp)
    IN  IF LoopBreaks(cur, st)
        THEN [st EXCEPT !.depth = depth, !.iterations = @ + 1, !.broke = TRUE]
        ELSE [depth   |-> depth,
              p_score |-> IF HalfIntegerDepth(depth)
                          THEN MulPlausibility(cur, st.p_score, temp)
                          ELSE st.p_score,
              price   |-> IF HalfIntegerDepth(depth)
                          THEN st.price
                          ELSE AddPpg(cur, st.price, temp),
              status  |-> RecordStatus(st.status, depth, num_child),
              current |-> temp,
              iterations |-> st.iterations + 1,
              broke |-> FALSE]

\* mutant: temp is bound to the first item's own 'children' list and grown
\* in place, so that list ends up holding the whole next frontier
ChildrenAfterPass_GrownInPlace(cur, st, i) ==
    IF st.current # <<>> /\ i = Head(st.current)
    THEN ChildrenOf(cur, st.current)
    ELSE cur.node[i].children

\* lines 1108-1111: temp starts as a new list and temp + item['children']
\* builds another new list, so the 'children' list of node i is only read
ChildrenAfterPass(cur, st, i) == cur.node[i].children

\* the search result after one pass of the loop: apart from the lists above
\* the pass assigns to its local names and to its own status dict only
InputAfterPass(cur, st) ==
    [cur EXCEPT !.node =
        [i \in DOMAIN cur.node |->
            [cur.node[i] EXCEPT !.children = ChildrenAfterPass(cur, st, i)]]]

\* lines 1105-1121: the while loop, run until its break
RECURSIVE Traverse(_, _)
Traverse(cur, st) ==
    LET after == Iteration(cur, st)
    IN  IF after.broke THEN after ELSE Traverse(cur, after)

\* lines 1101-1104: the loop state before the first pass
LoopEntry(cur) ==
    [depth |-> 0, p_score |-> 1, status |-> (0 :> 1), price |-> 0,
     current |-> Frontier(cur), iterations |-> 0, broke |-> FALSE]

\* the loop state when the loop is left
LoopExit(cur) == Traverse(cur, LoopEntry(cur))

\* mutant: the initial entry {0: 1} counts as a recorded level
Synthesizability_CountsRoot(status) ==
    IF Cardinality(DOMAIN status) >= 1 THEN 1 ELSE 0

\* lines 1122-1125
Synthesizability(status) ==
    IF Cardinality(DOMAIN status) > 1 THEN 1 ELSE 0

\* int(depth - 0.5), with depth in half steps (depth >= 1 here)
StepsOf(depth) == (depth - 1) \div 2

\* line 1126: the stepCount fallback is taken
NoSteps(depth) == StepsOf(depth) = 0

\* lines 1126-1130: the returned step count
NumStep(depth) == IF NoSteps(depth) THEN 11 ELSE StepsOf(depth)

\* lines 1126-1128: the returned price
FinalPrice(depth, price) == IF NoSteps(depth) THEN -1 ELSE price

\* mutant: the running product is returned unmasked
FinalPlausibility_Unmasked(p_score, synthesizability) == p_score

\* line 1131: the returned plausibility
FinalPlausibility(p_score, synthesizability) == p_score * synthesizability

\* lines 1122-1131: what is returned from the loop state st at the break
ReturnFrom(cur, st) ==
    LET synthesizability == Synthesizability(st.status)
    IN  <<Len(cur.trees), st.status, NumStep(st.depth),
          FinalPlausibility(st.p_score, synthesizability), synthesizability,
          FinalPrice(st.depth, st.price)>>

\* lines 1101-1131
TraversalReturn(cur) == ReturnFrom(cur, LoopExit(cur))

\* lines 1087-1097: the returns taken before the loop
ReturnsEarly(cur) ==
    "error" \in cur.keys \/ "price" \in cur.keys \/ RootPriced(cur)

\* mutant: the 'price' key is tested before the 'error' key
tree_analysis_PriceFirst(cur) ==
    IF "price" \in cur.keys THEN PriceReturn(cur)
    ELSE IF "error" \in cur.keys THEN ErrorReturn
    ELSE IF RootPriced(cur) THEN RootReturn(cur)
    ELSE TraversalReturn(cur)

tree_analysis(cur) ==
    IF "error" \in cur.keys THEN ErrorReturn
    ELSE IF "price" \in cur.keys THEN PriceReturn(cur)
    ELSE IF RootPriced(cur) THEN RootReturn(cur)
    ELSE TraversalReturn(cur)

----------------------------------------------------------------------------
(* Exact rational arithmetic: <<n, d>> with d > 0 and gcd(n, d) = 1. *)

Abs(n) == IF n < 0 THEN -n ELSE n

RECURSIVE GCD(_, _)
GCD(a, b) == IF b = 0 THEN a ELSE GCD(b, a % b)

\* n/d in lowest terms (d # 0)
Rat(n, d) ==
    LET g == GCD(Abs(n), Abs(d))
        sgn == IF d < 0 THEN -1 ELSE 1
    IN  <<(sgn * n) \div g, (sgn * d) \div g>>

RAdd(a, b) == Rat(a[1] * b[2] + b[1] * a[2], a[2] * b[2])
RSub(a, b) == Rat(a[1] * b[2] - b[1] * a[2], a[2] * b[2])
RMul(a, b) == Rat(a[1] * b[1], a[2] * b[2])
RDiv(a, b) == Rat(a[1] * b[2], a[2] * b[1])
RLt(a, b)  == a[1] * b[2] < b[1] * a[2]
RLe(a, b)  == a[1] * b[2] <= b[1] * a[2]
RMin(a, b) == IF RLe(a, b) THEN a ELSE b
RMax(a, b) == IF RLe(a, b) THEN b ELSE a

\* the values k/2 for k in -r..r
Halves(r) == { Rat(k, 2) : k \in (0 - r)..r }

----------------------------------------------------------------------------
(* ClippedScoreModifier, oracle.py:254-283 *)

\* what a call yields: a value (in thousandths where it is a score), an
\* exception raised instead, or a number that only the chemistry toolkit fixes
Value(v) == [kind |-> "value", v |-> v, what |-> ""]
Raise(exc) == [kind |-> "raise", v |-> 0, what |-> exc]
Toolkit(name) == [kind |-> "toolkit", v |-> 0, what |-> name]

Raised(v) == v.kind = "raise"

\* line 278
ClippedSlope(upper_x, lower_x, high_score, low_score) ==
    RDiv(RSub(high_score, low_score), RSub(upper_x, lower_x))

\* mutant: the intercept is anchored at lower_x instead of upper_x
ClippedIntercept_AtLowerX(upper_x, lower_x, high_score, slope) ==
    RSub(high_score, RMul(slope, lower_x))

\* line 279
ClippedIntercept(upper_x, lower_x, high_score, slope) ==
    RSub(high_score, RMul(slope, upper_x))

\* lines 263-279: __init__; the assert and the division can raise
ClippedScoreModifier(upper_x, lower_x, high_score, low_score) ==
    IF ~RLt(low_score, high_score) THEN Raise("AssertionError")
    ELSE IF upper_x = lower_x THEN Raise("ZeroDivisionError")
    ELSE LET slope == ClippedSlope(upper_x, lower_x, high_score, low_score)
         IN  [kind |-> "Clipped",
              upper_x |-> upper_x, lower_x |-> lower_x,
              high_score |-> high_score, low_score |-> low_score,
              slope |-> slope,
              intercept |-> ClippedIntercept(upper_x, lower_x, high_score, slope)]

\* np.clip(y, lo, hi)
Clip(y, lo, hi) == RMin(RMax(y, lo), hi)

\* lines 281-283: __call__
ClippedCall(self, v) ==
    Clip(RAdd(RMul(self.slope, v), self.intercept), self.low_score, self.high_score)

----------------------------------------------------------------------------
(* The other score modifiers, oracle.py:156-251 and 286-327 *)

\* A result of __call__ is a tuple: <<n, d>> is the rational n/d; a longer
\* tuple <<n, d, tag, ...>> is a result that is not rational: e^(n/d) (with
\* n/d <= 0, so e^0 is exactly 1.0), NaN, an infinity, the logistic value
\* low + L / (1 + e^(n/d)), or an exception raised by the call.
ExpOf(q) == <<q[1], q[2], "exp">>
NaN == <<0, 1, "nan">>
Inf(sign) == <<sign, 1, "inf">>
Logistic(low, L, q) == <<q[1], q[2], "logistic", low, L>>
RaisedInCall(exc) == <<0, 1, "raise", exc>>

IsRational(v) == Len(v) = 2

\* the call failed or yielded no number: an exception, NaN or an infinity
Undefined(v) == Len(v) > 2 /\ v[3] \in {"raise", "nan", "inf"}

\* lines 182-183
LinearModifier(slope) == [kind |-> "Linear", slope |-> slope]

\* lines 185-186
LinearCall(self, v) == RMul(self.slope, v)

\* lines 195-197
SquaredModifier(target_value, coefficient) ==
    [kind |-> "Squared", target_value |-> target_value, coefficient |-> coefficient]

\* lines 199-200
SquaredCall(self, v) ==
    LET d == RSub(self.target_value, v)
    IN  RSub(Rat(1, 1), RMul(self.coefficient, RMul(d, d)))

\* lines 209-210
AbsoluteScoreModifier(target_value) ==
    [kind |-> "Absolute", target_value |-> target_value]

\* lines 212-213
AbsoluteCall(self, v) ==
    LET d == RSub(self.target_value, v)
    IN  RSub(Rat(1, 1), IF d[1] < 0 THEN RSub(Rat(0, 1), d) ELSE d)

\* lines 221-223: nothing is validated
GaussianModifier(mu, sigma) == [kind |-> "Gaussian", mu |-> mu, sigma |-> sigma]

\* lines 225-226.  is_np tells whether v is a numpy scalar: dividing a Python
\* float by zero raises, dividing a numpy scalar by zero yields nan or inf
\* (np.power(inf, 2.) = inf and np.exp(-inf) = 0.0).
GaussianCall(self, v, is_np) ==
    IF self.sigma[1] = 0
    THEN IF ~is_np THEN RaisedInCall("ZeroDivisionError")
         ELSE IF v = self.mu THEN NaN
         ELSE Rat(0, 1)
    ELSE LET z == RDiv(RSub(v, self.mu), self.sigma)
         IN  ExpOf(RMul(Rat(-1, 2), RMul(z, z)))

\* lines 236-240
MinMaxGaussianModifier(mu, sigma, minimize) ==
    [kind |-> "MinMaxGaussian", mu |-> mu, sigma |-> sigma, minimize |-> minimize,
     full_gaussian |-> GaussianModifier(mu, sigma)]

\* mutant: the clamps of the two halves are exchanged
MinMaxGaussianCall_Swapped(self, v) ==
    LET mod_x == IF self.minimize THEN RMin(v, self.mu) ELSE RMax(v, self.mu)
    IN  GaussianCall(self.full_gaussian, mod_x, TRUE)

\* lines 242-247: np.maximum / np.minimum return a numpy scalar
MinMaxGaussianCall(self, v) ==
    LET mod_x == IF self.minimize THEN RMax(v, self.mu) ELSE RMin(v, self.mu)
    IN  GaussianCall(self.full_gaussian, mod_x, TRUE)

\* lines 294-312: __init__; the assert and the division can raise
SmoothClippedScoreModifier(upper_x, lower_x, high_score, low_score) ==
    IF ~RLt(low_score, high_score) THEN Raise("AssertionError")
    ELSE IF upper_x = lower_x THEN Raise("ZeroDivisionError")
    ELSE [kind |-> "SmoothClipped",
          upper_x |-> upper_x, lower_x |-> lower_x,
          high_score |-> high_score, low_score |-> low_score,
          k |-> RDiv(Rat(4, 1), RSub(upper_x, lower_x)),
          middle_x |-> RDiv(RAdd(upper_x, lower_x), Rat(2, 1)),
          L |-> RSub(high_score, low_score)]

\* lines 314-315
SmoothClippedCall(self, v) ==
    Logistic(self.low_score, self.L,
             RMul(RSub(Rat(0, 1), self.k), RSub(v, self.middle_x)))

\* lines 323-324: nothing is validated
ThresholdedLinearModifier(threshold) ==
    [kind |-> "Thresholded", threshold |-> threshold]

\* lines 326-327: np.minimum returns a numpy scalar, so a zero threshold
\* yields nan (0/0) or -inf (negative/0) instead of raising
ThresholdedLinearCall(self, v) ==
    LET m == RMin(v, self.threshold)
    IN  IF self.threshold[1] = 0
        THEN IF m[1] = 0 THEN NaN ELSE Inf(-1)
        ELSE RDiv(m, self.threshold)

\* lines 162-168
ChainedModifier(modifiers) == [kind |-> "Chained", modifiers |-> modifiers]

RECURSIVE Call(_, _)

\* mutant: the stages run from the last to the first
RECURSIVE ChainedCall_RightToLeft(_, _)
ChainedCall_RightToLeft(self, v) ==
    LET n == Len(self.modifiers)
    IN  IF n = 0 THEN v
        ELSE ChainedCall_RightToLeft(
                 [self EXCEPT !.modifiers = SubSeq(self.modifiers, 1, n - 1)],
                 Call(self.modifiers[n], v))

\* lines 170-174: score = x, then score = modifier(score) for each modifier
\* in list order
RECURSIVE ChainedCall(_, _)
ChainedCall(self, v) ==
    IF self.modifiers = <<>> THEN v
    ELSE ChainedCall([self EXCEPT !.modifiers = Tail(self.modifiers)],
                     Call(Head(self.modifiers), v))

\* modifier(x): __call__ of the object's class, x being a Python number
Call(self, v) ==
    CASE self.kind = "Linear" -> LinearCall(self, v)
      [] self.kind = "Squared" -> SquaredCall(self, v)
      [] self.kind = "Absolute" -> AbsoluteCall(self, v)
      [] self.kind = "Gaussian" -> GaussianCall(self, v, FALSE)
      [] self.kind = "MinMaxGaussian" -> MinMaxGaussianCall(self, v)
      [] self.kind = "Clipped" -> ClippedCall(self, v)
      [] self.kind = "SmoothClipped" -> SmoothClippedCall(self, v)
      [] self.kind = "Thresholded" -> ThresholdedLinearCall(self, v)
      [] self.kind = "Chained" -> ChainedCall(self, v)

----------------------------------------------------------------------------
(* The modifiers' specification: construct a modifier, then apply it once. *)

ClippedArgs ==
    [kind : {"Clipped"}, upper_x : Halves(HalfRange), lower_x : Halves(HalfRange),
     high_score : Halves(HalfRange), low_score : Halves(HalfRange)]

SmoothClippedArgs ==
    [kind : {"SmoothClipped"}, upper_x : Halves(HalfRange), lower_x : Halves(HalfRange),
     high_score : Halves(HalfRange), low_score : Halves(HalfRange)]

GaussianArgs ==
    [kind : {"Gaussian"}, mu : Halves(HalfRange), sigma : Halves(HalfRange)]

MinMaxGaussianArgs ==
    [kind : {"MinMaxGaussian"}, mu : Halves(HalfRange), sigma : Halves(HalfRange),
     minimize : BOOLEAN]

SimpleArgs ==
    [kind : {"Linear"}, slope : Halves(HalfRange)]
    \cup [kind : {"Squared"}, target_value : Halves(HalfRange), coefficient : Halves(HalfRange)]
    \cup [kind : {"Absolute"}, target_value : Halves(HalfRange)]
    \cup [kind : {"Thresholded"}, threshold : Halves(HalfRange)]

\* the stages a chain is built from; their results stay rational
Stages ==
    { [kind |-> "Linear", slope |-> Rat(1, 1)],
      [kind |-> "Linear", slope |-> Rat(2, 1)],
      [kind |-> "Linear", slope |-> Rat(-1, 2)],
      [kind |-> "Absolute", target_value |-> Rat(1, 2)],
      [kind |-> "Thresholded", threshold |-> Rat(1, 1)],
      [kind |-> "Clipped", upper_x |-> Rat(1, 1), lower_x |-> Rat(0, 1),
       high_score |-> Rat(1, 1), low_score |-> Rat(0, 1)] }

ChainedArgs ==
    UNION { [kind : {"Chained"}, modifiers : [1..n -> Stages]] : n \in 0..MaxChain }

ModifierArgs ==
    ClippedArgs \cup SmoothClippedArgs \cup GaussianArgs \cup MinMaxGaussianArgs
    \cup SimpleArgs \cup ChainedArgs

\* measurements reach beyond the parameters on both sides
Measurements == Halves(HalfRange + 2)

\* the constructor call that the arguments a describe
RECURSIVE Construct(_)
Construct(a) ==
    CASE a.kind = "Linear" -> LinearModifier(a.slope)
      [] a.kind = "Squared" -> SquaredModifier(a.target_value, a.coefficient)
      [] a.kind = "Absolute" -> AbsoluteScoreModifier(a.target_value)
      [] a.kind = "Gaussian" -> GaussianModifier(a.mu, a.sigma)
      [] a.kind = "MinMaxGaussian" -> MinMaxGaussianModifier(a.mu, a.sigma, a.minimize)
      [] a.kind = "Clipped" ->
            ClippedScoreModifier(a.upper_x, a.lower_x, a.high_score, a.low_score)
      [] a.kind = "SmoothClipped" ->
            SmoothClippedScoreModifier(a.upper_x, a.lower_x, a.high_score, a.low_score)
      [] a.kind = "Thresholded" -> ThresholdedLinearModifier(a.threshold)
      [] a.kind = "Chained" ->
            ChainedModifier([i \in 1..Len(a.modifiers) |-> Construct(a.modifiers[i])])

InitMod ==
    /\ args \in ModifierArgs
    /\ x \in Measurements
    /\ modifier = NoValue
    /\ score = NoValue
    /\ pc = "construct"
    /\ current = NoValue
    /\ analysis = <<>>
    /\ frame = NoValue
    /\ OracleIdle
    /\ ThreadsIdle

ConstructModifier ==
    /\ pc = "construct"
    /\ modifier' = Construct(args)
    /\ pc' = IF Raised(modifier') THEN "failed" ELSE "apply"
    /\ UNCHANGED <<current, analysis, frame, args, x, score, fscores, globals, oracleVars, threadVars>>

ApplyModifier ==
    /\ pc = "apply"
    /\ score' = Call(modifier, x)
    /\ pc' = "done"
    /\ UNCHANGED <<current, analysis, frame, args, modifier, x, fscores, globals, oracleVars, threadVars>>

NextMod == ConstructModifier \/ ApplyModifier

SpecMod == InitMod /\ [][NextMod]_vars

----------------------------------------------------------------------------
(* Candidates.  A structure text is Python's None, a text the toolkit does  *)
(* not parse, or a text that parses to a molecule; a molecule is known to  *)
(* the oracles through the descriptors the toolkit computes for it.        *)

FragmentIds == 1..3

NoDescriptors ==
    [nAtoms |-> 0, fps |-> [f \in FragmentIds |-> 0], nChiralCenters |-> 0,
     nSpiro |-> 0, nBridgeheads |-> 0, nMacrocycles |-> 0]

None == [kind |-> "None", mol |-> NoDescriptors]

Unparseable == [kind |-> "unparseable", mol |-> NoDescriptors]

Molecule(d) == [kind |-> "mol", mol |-> d]

\* the molecule with no atoms, Chem.MolFromSmiles('')
EmptyMolecule == Molecule(NoDescriptors)

\* every atom gives at least one fragment, and fragments come from atoms
Descriptors ==
    { d \in [nAtoms : 0..MaxAtoms, fps : [FragmentIds -> 0..MaxCount],
             nChiralCenters : 0..1, nSpiro : 0..1, nBridgeheads : 0..1,
             nMacrocycles : 0..1] :
        /\ (d.nAtoms = 0) <=> (\A f \in FragmentIds : d.fps[f] = 0)
        /\ d.nAtoms = 0 =>
             d.nChiralCenters + d.nSpiro + d.nBridgeheads + d.nMacrocycles = 0 }

Molecules == { Molecule(d) : d \in Descriptors }

\* Chem.MolFromSmiles on a text: None when it does not parse
MolFromSmiles(s) == IF s.kind = "mol" THEN s ELSE None

IsNone(v) == v.kind = "None"

----------------------------------------------------------------------------
(* Fixed-point logarithm: math.log in thousandths.  LnMilli(v) is            *)
(* 1000*ln(v/1000), exact at v = 1000 and piecewise linear through the     *)
(* values of ln at 1, 1.125, ..., 2 between powers of two.                  *)

LnTable == <<0, 118, 223, 318, 405, 486, 560, 629, 693>>

RECURSIVE LnMilli(_)
LnMilli(v) ==
    IF v >= 2000 THEN 693 + LnMilli(v \div 2)
    ELSE IF v < 1000 THEN LnMilli(2 * v) - 693
    ELSE LET q == (v - 1000) \div 125
             r == (v - 1000) % 125
         IN  LnTable[q + 1] + ((LnTable[q + 2] - LnTable[q + 1]) * r) \div 125

\* math.log10(n) for an integer n >= 1
Log10Milli(n) == (LnMilli(1000 * n) * 1000) \div 2303

\* n**1.005 - n = n*(exp(0.005*ln n) - 1), to first order in 0.005*ln n
SizePenaltyMilli(n) ==
    IF n = 0 THEN 0 ELSE (n * 5 * LnMilli(1000 * n)) \div 1000

----------------------------------------------------------------------------
(* readFragmentScores and calculateScore, oracle.py:330-410 *)

\* the content of oracle/fpscores.pkl: rows [score, fragment id, ...]
FpscoresPickle == << <<1500, 1>>, <<-2000, 2>> >>

\* lines 340 and 349: the loaded rows, the built dict
FscoresList == [tag |-> "list", val |-> FpscoresPickle]

\* lines 345-348
RECURSIVE OutDict(_)
OutDict(rows) ==
    IF rows = <<>> THEN <<>>
    ELSE LET i == Head(rows)
         IN  [id \in {i[j] : j \in 2..Len(i)} |-> i[1]] @@ OutDict(Tail(rows))

FscoresDict == [tag |-> "dict", val |-> OutDict(FpscoresPickle)]

\* lines 331-349, run to completion
readFragmentScores == FscoresDict

\* line 357
FscoresAfterInit(fs) == IF fs.tag = "None" THEN readFragmentScores ELSE fs

\* line 367: _fscores.get(sfp, -4)
DefaultFragmentScore == -4000

FscoresGet(dict, sfp) ==
    IF sfp \in DOMAIN dict THEN dict[sfp] ELSE DefaultFragmentScore

\* line 361: fp.GetNonzeroElements()
NonzeroElements(m) == {f \in FragmentIds : m.fps[f] > 0}

\* lines 362-367: nf and the weighted sum over the fragments
RECURSIVE SumOver(_, _, _)
SumOver(ids, m, dict) ==
    IF ids = {} THEN [nf |-> 0, score1 |-> 0]
    ELSE LET bitId == CHOOSE f \in ids : TRUE
             rest == SumOver(ids \ {bitId}, m, dict)
         IN  [nf |-> rest.nf + m.fps[bitId],
              score1 |-> rest.score1 + FscoresGet(dict, bitId) * m.fps[bitId]]

\* lines 371-390
Score2(m) ==
    0 - SizePenaltyMilli(m.nAtoms) - Log10Milli(m.nChiralCenters + 1)
      - Log10Milli(m.nSpiro + 1) - Log10Milli(m.nBridgeheads + 1)
      - (IF m.nMacrocycles > 0 THEN Log10Milli(2) ELSE 0)

\* lines 395-397
Score3(m) ==
    LET nfps == Cardinality(NonzeroElements(m))
    IN  IF m.nAtoms > nfps
        THEN LnMilli((1000 * m.nAtoms) \div nfps) \div 2
        ELSE 0

\* lines 402-404
RawMin == -4000
RawMax == 2500

Rescale(sascore) ==
    11000 - ((sascore - RawMin + 1000) * 9000) \div (RawMax - RawMin)

\* line 406
Smooth(sascore) ==
    IF sascore > 8000 THEN 8000 + LnMilli(sascore + 1000 - 9000) ELSE sascore

\* lines 407-408
Clamp(sascore) ==
    IF sascore > 10000 THEN 10000
    ELSE IF sascore < 1000 THEN 1000
    ELSE sascore

\* lines 356-410, with _fscores already a dict
calculateScore(m, dict) ==
    LET sums == SumOver(NonzeroElements(m), m, dict)
    IN  IF sums.nf = 0 THEN Raise("ZeroDivisionError")
        ELSE Value(Clamp(Smooth(Rescale(
                 sums.score1 \div sums.nf + Score2(m) + Score3(m)))))

\* lines 586-590
SASentinel == 100000

\* lines 576-592
SA(s, fs) ==
    IF IsNone(s) THEN Value(SASentinel)
    ELSE LET mol == MolFromSmiles(s)
         IN  IF IsNone(mol) THEN Value(SASentinel)
             ELSE calculateScore(mol.mol, FscoresAfterInit(fs).val)

\* _fscores after SA(s): calculateScore loads the table on its first run
FscoresAfterSA(s, fs) ==
    IF IsNone(s) \/ IsNone(MolFromSmiles(s)) THEN fs ELSE FscoresAfterInit(fs)

----------------------------------------------------------------------------
(* The SA estimator's specification: SA called on any candidate. *)

TheCall(fn, s, b) == [fn |-> fn, s |-> s, b |-> b]

InitOracle ==
    /\ OracleIdle
    /\ ModifierIdle
    /\ ThreadsIdle
    /\ current = NoValue
    /\ analysis = <<>>
    /\ frame = NoValue
    /\ pc = "idle"

\* what every scoring call leaves alone, and the count of calls
OneMoreCall ==
    /\ ncalls < MaxCalls
    /\ ncalls' = ncalls + 1
    /\ UNCHANGED <<current, analysis, frame, pc, modVars, threadVars>>

CallSA(s) ==
    /\ OneMoreCall
    /\ call' = TheCall("SA", s, None)
    /\ ret' = SA(s, fscores)
    /\ fscores' = FscoresAfterSA(s, fscores)
    /\ UNCHANGED globals

\* the candidate is drawn first, then SA is called on it
InitSA ==
    /\ call \in { TheCall("pending", s, None) : s \in {None, Unparseable} \cup Molecules }
    /\ fscores = FscoresNone
    /\ globals = NoGlobals
    /\ ret = NoValue
    /\ ncalls = 0
    /\ ModifierIdle
    /\ ThreadsIdle
    /\ current = NoValue
    /\ analysis = <<>>
    /\ frame = NoValue
    /\ pc = "idle"

NextSA == call.fn = "pending" /\ CallSA(call.s)

SpecSA == InitSA /\ [][NextSA]_vars

----------------------------------------------------------------------------
(* The public scoring entry points, oracle.py:54-129 and 435-1042.  For a   *)
(* molecule that parses their values are numbers of the chemistry toolkit; *)
(* the model keeps what the code itself decides: the guards for None, the  *)
(* fallback values, the exceptions and the lazily defined globals.         *)

\* lines 54-71; MolFromSmiles sanitizes, so the second sanitization passes
smiles_to_rdkit_mol(s) == MolFromSmiles(s)

\* lines 73-129: the toolkit's fingerprint functions reject None
smiles_2_fingerprint(s) ==
    IF IsNone(smiles_to_rdkit_mol(s)) THEN Raise("ArgumentError")
    ELSE Toolkit("fingerprint")

\* a global name is defined
Defined(g, name) == name \in DOMAIN g

\* global statements followed by assignments: defs overrides g
Define(g, defs) == defs @@ g

\* lines 494-513
similarity(a, b) ==
    IF IsNone(a) \/ IsNone(b) THEN Value(0)
    ELSE IF IsNone(MolFromSmiles(a)) \/ IsNone(MolFromSmiles(b)) THEN Value(0)
    ELSE Toolkit("TanimotoSimilarity")

\* lines 515-530
qed(s) ==
    IF IsNone(s) THEN Value(0)
    ELSE IF IsNone(MolFromSmiles(s)) THEN Value(0)
    ELSE Toolkit("QED.qed")

\* lines 532-573
PenalizedLogpSentinel == -100000

penalized_logp(s, fs) ==
    IF IsNone(s) THEN Value(PenalizedLogpSentinel)
    ELSE LET mol == MolFromSmiles(s)
         IN  IF IsNone(mol) THEN Value(PenalizedLogpSentinel)
             ELSE IF Raised(calculateScore(mol.mol, FscoresAfterInit(fs).val))
             THEN calculateScore(mol.mol, FscoresAfterInit(fs).val)
             ELSE Toolkit("penalized_logp")

\* lines 435-456: the model is loaded first, then the text is parsed
drd2(smile) ==
    IF IsNone(smile) THEN Raise("ArgumentError")
    ELSE IF IsNone(MolFromSmiles(smile)) THEN Value(0)
    ELSE Toolkit("drd2_model.predict_proba")

drd2_globals(g) ==
    IF ~Defined(g, "drd2_model") THEN Define(g, "drd2_model" :> "loaded") ELSE g

\* lines 605-625: no guard between smiles_to_rdkit_mol and the fingerprint
gsk3b(smiles) ==
    IF IsNone(smiles_to_rdkit_mol(smiles)) THEN Raise("ArgumentError")
    ELSE Toolkit("gsk3_model.predict_proba")

gsk3b_globals(g) ==
    IF ~Defined(g, "gsk3_model") THEN Define(g, "gsk3_model" :> "loaded") ELSE g

\* lines 735-738, 746-753, 766-780: __call__ of rediscovery_meta,
\* similarity_meta and median_meta starts with the fingerprint of the text
meta_call(test_smiles) ==
    IF Raised(smiles_2_fingerprint(test_smiles)) THEN smiles_2_fingerprint(test_smiles)
    ELSE Toolkit("TanimotoSimilarity")

\* lines 714-725: Isomer_scoring.__call__ counts atoms of the parsed molecule
\* (lines 664-678), which fails on None
Isomer_scoring_call(test_smiles) ==
    IF IsNone(smiles_to_rdkit_mol(test_smiles)) THEN Raise("AttributeError")
    ELSE Toolkit("mean_func")

\* what numpy returns where no number is defined: nan, with a warning
NanResult == [kind |-> "nan", v |-> 0, what |-> "RuntimeWarning"]

\* lines 48-51 and 792: mean2func[means] applied to a list of scores.
\* np.mean of an empty list is nan.
mean_func(means, score_lst) ==
    IF means = "arithmetic"
    THEN IF score_lst = <<>> THEN NanResult ELSE Toolkit("np.mean")
    ELSE Toolkit("gmean")

\* lines 783-792: __init__
MPO_meta(means) ==
    IF means \notin {"geometric", "arithmetic"} THEN Raise("AssertionError")
    ELSE [kind |-> "MPO_meta", means |-> means]

\* mutant: the parsed molecule is used, which fails on None
MPO_meta_call_UsesMolecule(self, test_smiles) ==
    IF IsNone(smiles_to_rdkit_mol(test_smiles)) THEN Raise("AttributeError")
    ELSE mean_func(self.means, <<>>)

\* lines 795-799: __call__ parses the text and averages an empty score list
MPO_meta_call(self, test_smiles) ==
    LET molecule == smiles_to_rdkit_mol(test_smiles)
        score_lst == <<>>
    IN  mean_func(self.means, score_lst)

\* The named objectives with one guard name, lines 801-939 and 1014-1042:
\* guard and the names defined under it, and the exception of the first
\* toolkit call that receives the unparsed molecule.
Objectives ==
    [osimertinib_mpo |->
        [guard |-> "osimertinib_fp_fcfc4",
         defines |-> {"osimertinib_fp_fcfc4", "osimertinib_fp_ecfc6"},
         onNone |-> "ArgumentError"],
     fexofenadine_mpo |->
        [guard |-> "fexofenadine_fp",
         defines |-> {"fexofenadine_fp"},
         onNone |-> "ArgumentError"],
     ranolazine_mpo |->
        [guard |-> "ranolazine_fp",
         defines |-> {"ranolazine_fp", "fluorine_counter"},
         onNone |-> "ArgumentError"],
     perindopril_mpo |->
        [guard |-> "perindopril_fp",
         defines |-> {"perindopril_fp", "num_aromatic_rings"},
         onNone |-> "ArgumentError"],
     amlodipine_mpo |->
        [guard |-> "amlodipine_fp",
         defines |-> {"amlodipine_fp", "num_rings"},
         onNone |-> "ArgumentError"],
     zaleplon_mpo |->
        [guard |-> "zaleplon_fp",
         defines |-> {"zaleplon_fp", "isomer_scoring_C19H17N3O2"},
         onNone |-> "ArgumentError"],
     sitagliptin_mpo |->
        [guard |-> "sitagliptin_fp_ecfp4",
         defines |-> {"sitagliptin_fp_ecfp4", "sitagliptin_logp_modifier",
                      "sitagliptin_tpsa_modifier", "isomers_scoring_C16H15F6N5O",
                      "sitagliptin_similar_modifier"},
         onNone |-> "ArgumentError"],
     valsartan_smarts |->
        [guard |-> "valsartan_logp_modifier",
         defines |-> {"valsartan_mol", "valsartan_logp_modifier",
                      "valsartan_tpsa_modifier", "valsartan_bertz_modifier"},
         onNone |-> "AttributeError"]]

ObjectiveNames == DOMAIN Objectives

objective_globals(fn, g) ==
    IF ~Defined(g, Objectives[fn].guard)
    THEN Define(g, [n \in Objectives[fn].defines |-> "set"])
    ELSE g

objective(fn, test_smiles) ==
    IF IsNone(smiles_to_rdkit_mol(test_smiles)) THEN Raise(Objectives[fn].onNone)
    ELSE Toolkit(fn)

\* lines 941-945
get_PHCO_fingerprint_globals(g) ==
    IF ~Defined(g, "Gobbi_Pharm2D")
    THEN Define(g, [n \in {"Gobbi_Pharm2D", "Generate"} |-> "imported"])
    ELSE g

\* lines 966-974
deco_hop_globals(g) ==
    IF ~Defined(g, "pharmacophor_fp")
    THEN get_PHCO_fingerprint_globals(
           Define(g, ("pharmacophor_fp" :> "set")
                     @@ ("deco1_smarts_scoring" :> "inverse=True")
                     @@ ("deco2_smarts_scoring" :> "inverse=True")
                     @@ ("scaffold_smarts_scoring" :> "inverse=False")))
    ELSE get_PHCO_fingerprint_globals(g)

\* lines 976-986: g is the globals after the lazy initialisation
deco_hop(test_smiles, g) ==
    IF IsNone(smiles_to_rdkit_mol(test_smiles)) THEN Raise("ArgumentError")
    ELSE IF ~Defined(g, "deco1_smarts_scoring") THEN Raise("NameError")
    ELSE Toolkit("deco_hop")

\* lines 989-1001
scaffold_hop_globals(g) ==
    IF \/ ~Defined(g, "pharmacophor_fp")
       \/ ~Defined(g, "scaffold_smarts_scoring")
       \/ ~Defined(g, "deco_smarts_scoring")
    THEN get_PHCO_fingerprint_globals(
           Define(g, ("pharmacophor_fp" :> "set")
                     @@ ("deco_smarts_scoring" :> "inverse=False")
                     @@ ("scaffold_smarts_scoring" :> "inverse=True")))
    ELSE get_PHCO_fingerprint_globals(g)

\* lines 1003-1012
scaffold_hop(test_smiles) ==
    IF IsNone(smiles_to_rdkit_mol(test_smiles)) THEN Raise("ArgumentError")
    ELSE Toolkit("scaffold_hop")

----------------------------------------------------------------------------
(* parse_molecular_formula, oracle.py:680-700.  A formula is a sequence of  *)
(* characters; the alphabet has uppercase and lowercase letters, digits and *)
(* one character that is neither.                                           *)

Uppercase == {"C", "H"}
Lowercase == {"l"}
Digits == {"0", "2", "6"}
Alphabet == Uppercase \cup Lowercase \cup Digits \cup {"-"}

\* the formulas of length n
FormulasOfLen(n) == [1..n -> Alphabet]

DigitValue(c) == CASE c = "0" -> 0 [] c = "2" -> 2 [] c = "6" -> 6

\* int(ds) for a non-empty run of digits
RECURSIVE int(_)
int(ds) ==
    IF ds = <<>> THEN 0
    ELSE 10 * int(SubSeq(ds, 1, Len(ds) - 1)) + DigitValue(ds[Len(ds)])

\* the end of the longest run of characters of S that starts at i
RECURSIVE RunEnd(_, _, _)
RunEnd(f, i, S) ==
    IF i <= Len(f) /\ f[i] \in S THEN RunEnd(f, i + 1, S) ELSE i

\* line 691: re.findall(r'([A-Z][a-z]*)(\d*)', formula) from position i on.
\* The scan skips every character at which no match starts.
RECURSIVE findall(_, _)
findall(f, i) ==
    IF i > Len(f) THEN <<>>
    ELSE IF f[i] \notin Uppercase THEN findall(f, i + 1)
    ELSE LET j == RunEnd(f, i + 1, Lowercase)
             k == RunEnd(f, j, Digits)
         IN  << <<SubSeq(f, i, j - 1), SubSeq(f, j, k - 1)>> >> \o findall(f, k)

\* lines 694-700
parse_molecular_formula(formula) ==
    LET matches == findall(formula, 1)
    IN  [m \in 1..Len(matches) |->
            <<matches[m][1],
              IF matches[m][2] = <<>> THEN 1 ELSE int(matches[m][2])>>]

\* lines 710 and 723: sum([cnt for atom, cnt in atom2cnt_lst])
RECURSIVE total_atom_num(_)
total_atom_num(atom2cnt_lst) ==
    IF atom2cnt_lst = <<>> THEN 0
    ELSE Head(atom2cnt_lst)[2] + total_atom_num(Tail(atom2cnt_lst))

\* a returned list
ListValue(results) == [kind |-> "value", v |-> Len(results), what |-> results]

----------------------------------------------------------------------------
(* The entry points' specification: a run of up to MaxCalls scoring calls. *)

\* a molecule with atoms
SampleMolecule ==
    Molecule([NoDescriptors EXCEPT !.nAtoms = 2, !.fps = [f \in FragmentIds |-> 1]])

Texts == {Unparseable, EmptyMolecule, SampleMolecule}

Candidates == {None} \cup Texts

CallSimilarity ==
    \E a \in Candidates, b \in Candidates :
        /\ OneMoreCall
        /\ call' = TheCall("similarity", a, b)
        /\ ret' = similarity(a, b)
        /\ UNCHANGED <<fscores, globals>>

CallQed ==
    \E s \in Candidates :
        /\ OneMoreCall
        /\ call' = TheCall("qed", s, None)
        /\ ret' = qed(s)
        /\ UNCHANGED <<fscores, globals>>

CallPenalizedLogp ==
    \E s \in Candidates :
        /\ OneMoreCall
        /\ call' = TheCall("penalized_logp", s, None)
        /\ ret' = penalized_logp(s, fscores)
        /\ fscores' = FscoresAfterSA(s, fscores)
        /\ UNCHANGED globals

CallDrd2 ==
    \E s \in Candidates :
        /\ OneMoreCall
        /\ call' = TheCall("drd2", s, None)
        /\ ret' = drd2(s)
        /\ globals' = drd2_globals(globals)
        /\ UNCHANGED fscores

CallGsk3b ==
    \E s \in Texts :
        /\ OneMoreCall
        /\ call' = TheCall("gsk3b", s, None)
        /\ ret' = gsk3b(s)
        /\ globals' = gsk3b_globals(globals)
        /\ UNCHANGED fscores

\* __call__ of a rediscovery_meta, similarity_meta or median_meta object
CallMeta ==
    \E fn \in {"rediscovery_meta", "similarity_meta", "median_meta"}, s \in Texts :
        /\ OneMoreCall
        /\ call' = TheCall(fn, s, None)
        /\ ret' = meta_call(s)
        /\ UNCHANGED <<fscores, globals>>

CallIsomerScoring ==
    \E s \in Texts :
        /\ OneMoreCall
        /\ call' = TheCall("Isomer_scoring", s, None)
        /\ ret' = Isomer_scoring_call(s)
        /\ UNCHANGED <<fscores, globals>>

\* an MPO_meta object is constructed and called on a text
CallMPOMeta ==
    \E means \in {"geometric", "arithmetic", "harmonic"}, s \in Texts :
        /\ OneMoreCall
        /\ call' = TheCall("MPO_meta", s, means)
        /\ ret' = IF Raised(MPO_meta(means)) THEN MPO_meta(means)
                  ELSE MPO_meta_call(MPO_meta(means), s)
        /\ UNCHANGED <<fscores, globals>>

CallObjective ==
    \E fn \in ObjectiveNames, s \in Texts :
        /\ OneMoreCall
        /\ call' = TheCall(fn, s, None)
        /\ globals' = objective_globals(fn, globals)
        /\ ret' = objective(fn, s)
        /\ UNCHANGED fscores

CallDecoHop ==
    \E s \in Texts :
        /\ OneMoreCall
        /\ call' = TheCall("deco_hop", s, None)
        /\ globals' = deco_hop_globals(globals)
        /\ ret' = deco_hop(s, globals')
        /\ UNCHANGED fscores

CallScaffoldHop ==
    \E s \in Texts :
        /\ OneMoreCall
        /\ call' = TheCall("scaffold_hop", s, None)
        /\ globals' = scaffold_hop_globals(globals)
        /\ ret' = scaffold_hop(s)
        /\ UNCHANGED fscores

NextOracle ==
    \/ CallSimilarity
    \/ CallQed
    \/ CallPenalizedLogp
    \/ \E s \in Candidates : CallSA(s)
    \/ CallDrd2
    \/ CallGsk3b
    \/ CallMeta
    \/ CallIsomerScoring
    \/ CallMPOMeta
    \/ CallObjective
    \/ CallDecoHop
    \/ CallScaffoldHop

SpecOracle == InitOracle /\ [][NextOracle]_vars

----------------------------------------------------------------------------
(* The formula parser's specification: a formula is drawn, then parsed. *)

InitFormula ==
    /\ \E n \in 0..MaxFormulaLen :
          call \in { TheCall("pending", f, None) : f \in FormulasOfLen(n) }
    /\ fscores = FscoresNone
    /\ globals = NoGlobals
    /\ ret = NoValue
    /\ ncalls = 0
    /\ ModifierIdle
    /\ ThreadsIdle
    /\ current = NoValue
    /\ analysis = <<>>
    /\ frame = NoValue
    /\ pc = "idle"

CallParseMolecularFormula ==
    /\ call.fn = "pending"
    /\ OneMoreCall
    /\ call' = TheCall("parse_molecular_formula", call.s, None)
    /\ ret' = ListValue(parse_molecular_formula(call.s))
    /\ UNCHANGED <<fscores, globals>>

NextFormula == CallParseMolecularFormula

SpecFormula == InitFormula /\ [][NextFormula]_vars

----------------------------------------------------------------------------
(* The sub-scores of the named objectives, oracle.py:801-939 and 1014-1042. *)
(* A candidate that parses is known through the raw measurements the       *)
(* toolkit returns for it; the target molecule of sitagliptin_mpo and      *)
(* valsartan_smarts is known through its descriptors.  An objective yields *)
(* the modifiers it constructs, by the measurement each is constructed     *)
(* for, and the list it hands to gmean.                                    *)

\* lines 250-251
MinGaussianModifier(mu, sigma) == MinMaxGaussianModifier(mu, sigma, TRUE)
MaxGaussianModifier(mu, sigma) == MinMaxGaussianModifier(mu, sigma, FALSE)

\* ClippedScoreModifier(upper_x=u) with the defaults of line 263
ClippedUpTo(u) == ClippedScoreModifier(u, Rat(0, 1), Rat(1, 1), Rat(0, 1))

\* an entry of the list handed to gmean: the measurement it comes from and
\* the number that enters the mean
SubScore(of, v) == [of |-> of, v |-> v]

\* lines 809-824
osimertinib_mpo(m) ==
    LET sim_v1_modifier == ClippedUpTo(Rat(4, 5))
        sim_v2_modifier == MinGaussianModifier(Rat(17, 20), Rat(1, 10))
        tpsa_modifier == MaxGaussianModifier(Rat(100, 1), Rat(10, 1))
        logp_modifier == MinGaussianModifier(Rat(1, 1), Rat(1, 1))
        tpsa_score == Call(tpsa_modifier, m.TPSA)
        logp_score == Call(logp_modifier, m.MolLogP)
        similarity_v1 == Call(sim_v1_modifier, m.Tanimoto)
        similarity_v2 == Call(sim_v2_modifier, m.Tanimoto2)
    IN  [modifiers |-> [TPSA |-> tpsa_modifier, MolLogP |-> logp_modifier,
                        Tanimoto |-> sim_v1_modifier, Tanimoto2 |-> sim_v2_modifier],
         score_lst |-> <<SubScore("TPSA", tpsa_score), SubScore("MolLogP", logp_score),
                         SubScore("Tanimoto", similarity_v1),
                         SubScore("Tanimoto2", similarity_v2)>>]

\* lines 832-842
fexofenadine_mpo(m) ==
    LET similar_modifier == ClippedUpTo(Rat(4, 5))
        tpsa_modifier == MaxGaussianModifier(Rat(90, 1), Rat(10, 1))
        logp_modifier == MinGaussianModifier(Rat(4, 1), Rat(1, 1))
        tpsa_score == Call(tpsa_modifier, m.TPSA)
        logp_score == Call(logp_modifier, m.MolLogP)
        similarity_value == Call(similar_modifier, m.Tanimoto)
    IN  [modifiers |-> [TPSA |-> tpsa_modifier, MolLogP |-> logp_modifier,
                        Tanimoto |-> similar_modifier],
         score_lst |-> <<SubScore("TPSA", tpsa_score), SubScore("MolLogP", logp_score),
                         SubScore("Tanimoto", similarity_value)>>]

\* lines 851-864
ranolazine_mpo(m) ==
    LET similar_modifier == ClippedUpTo(Rat(7, 10))
        tpsa_modifier == MaxGaussianModifier(Rat(95, 1), Rat(20, 1))
        logp_modifier == MaxGaussianModifier(Rat(7, 1), Rat(1, 1))
        fluorine_modifier == GaussianModifier(Rat(1, 1), Rat(1, 1))
        tpsa_score == Call(tpsa_modifier, m.TPSA)
        logp_score == Call(logp_modifier, m.MolLogP)
        similarity_value == Call(similar_modifier, m.Tanimoto)
        fluorine_value == Call(fluorine_modifier, m.count)
    IN  [modifiers |-> [TPSA |-> tpsa_modifier, MolLogP |-> logp_modifier,
                        Tanimoto |-> similar_modifier, count |-> fluorine_modifier],
         score_lst |-> <<SubScore("TPSA", tpsa_score), SubScore("MolLogP", logp_score),
                         SubScore("Tanimoto", similarity_value),
                         SubScore("count", fluorine_value)>>]

\* lines 876-885: the similarity has no modifier
perindopril_mpo(m) ==
    LET arom_rings_modifier == GaussianModifier(Rat(2, 1), Rat(1, 2))
        similarity_value == m.Tanimoto
        num_aromatic_rings_value == Call(arom_rings_modifier, m.count)
    IN  [modifiers |-> [count |-> arom_rings_modifier],
         score_lst |-> <<SubScore("Tanimoto", similarity_value),
                         SubScore("count", num_aromatic_rings_value)>>]

\* lines 896-905: the similarity has no modifier
amlodipine_mpo(m) ==
    LET num_rings_modifier == GaussianModifier(Rat(3, 1), Rat(1, 2))
        similarity_value == m.Tanimoto
        num_rings_value == Call(num_rings_modifier, m.count)
    IN  [modifiers |-> [count |-> num_rings_modifier],
         score_lst |-> <<SubScore("Tanimoto", similarity_value),
                         SubScore("count", num_rings_value)>>]

\* lines 914-917: no modifier is constructed
zaleplon_mpo(m) ==
    LET similarity_value == m.Tanimoto
        isomer_value == m.isomer
    IN  [modifiers |-> <<>>,
         score_lst |-> <<SubScore("Tanimoto", similarity_value),
                         SubScore("isomer", isomer_value)>>]

\* lines 920-939: three modifiers are constructed from the target's
\* descriptors (lines 929-930 and 932); the list of line 939 holds the
\* toolkit's numbers themselves
sitagliptin_mpo(m, target) ==
    LET sitagliptin_logp_modifier == GaussianModifier(target.MolLogP, Rat(1, 5))
        sitagliptin_tpsa_modifier == GaussianModifier(target.TPSA, Rat(5, 1))
        sitagliptin_similar_modifier == GaussianModifier(Rat(0, 1), Rat(1, 10))
        logp_score == m.MolLogP
        tpsa_score == m.TPSA
        isomer_score == m.isomer
        similarity_value == m.Tanimoto
    IN  [modifiers |-> [MolLogP |-> sitagliptin_logp_modifier,
                        TPSA |-> sitagliptin_tpsa_modifier,
                        Tanimoto |-> sitagliptin_similar_modifier],
         score_lst |-> <<SubScore("Tanimoto", similarity_value),
                         SubScore("MolLogP", logp_score),
                         SubScore("TPSA", tpsa_score),
                         SubScore("isomer", isomer_score)>>]

\* lines 1027-1042
valsartan_smarts(m, target) ==
    LET valsartan_logp_modifier == GaussianModifier(target.MolLogP, Rat(1, 5))
        valsartan_tpsa_modifier == GaussianModifier(target.TPSA, Rat(5, 1))
        valsartan_bertz_modifier == GaussianModifier(target.BertzCT, Rat(30, 1))
        smarts_score == IF m.matches > 0 THEN Rat(1, 1) ELSE Rat(0, 1)
        logp_score == Call(valsartan_logp_modifier, m.MolLogP)
        tpsa_score == Call(valsartan_tpsa_modifier, m.TPSA)
        bertz_score == Call(valsartan_bertz_modifier, m.BertzCT)
    IN  [modifiers |-> [MolLogP |-> valsartan_logp_modifier,
                        TPSA |-> valsartan_tpsa_modifier,
                        BertzCT |-> valsartan_bertz_modifier],
         score_lst |-> <<SubScore("matches", smarts_score), SubScore("TPSA", tpsa_score),
                         SubScore("MolLogP", logp_score),
                         SubScore("BertzCT", bertz_score)>>]

\* the objective fn on a candidate with measurements m
named_objective(fn, m, target) ==
    CASE fn = "osimertinib_mpo" -> osimertinib_mpo(m)
      [] fn = "fexofenadine_mpo" -> fexofenadine_mpo(m)
      [] fn = "ranolazine_mpo" -> ranolazine_mpo(m)
      [] fn = "perindopril_mpo" -> perindopril_mpo(m)
      [] fn = "amlodipine_mpo" -> amlodipine_mpo(m)
      [] fn = "zaleplon_mpo" -> zaleplon_mpo(m)
      [] fn = "sitagliptin_mpo" -> sitagliptin_mpo(m, target)
      [] fn = "valsartan_smarts" -> valsartan_smarts(m, target)

\* What the toolkit can return for a molecule: a polar surface area that is
\* not negative, a logP of either sign, a complexity that is not negative,
\* similarities and an isomer score between 0 and 1, counts of atoms, rings
\* or substructure matches.
RawMeasurements ==
    [TPSA : {Rat(0, 1), Rat(77, 1), Rat(120, 1)},
     MolLogP : {Rat(-1, 1), Rat(2, 1), Rat(5, 1)},
     BertzCT : {Rat(0, 1), Rat(500, 1)},
     Tanimoto : {Rat(0, 1), Rat(1, 2), Rat(1, 1)},
     Tanimoto2 : {Rat(1, 2), Rat(1, 1)},
     count : {Rat(0, 1), Rat(2, 1)},
     isomer : {Rat(0, 1), Rat(1, 1)},
     matches : {0, 1}]

\* the descriptors of the target molecule of lines 924-927 and 1020-1025
TargetDescriptors ==
    { [TPSA |-> Rat(77, 1), MolLogP |-> Rat(2, 1), BertzCT |-> Rat(500, 1)],
      [TPSA |-> Rat(120, 1), MolLogP |-> Rat(-1, 1), BertzCT |-> Rat(0, 1)] }

InitMPO ==
    /\ args \in [fn : ObjectiveNames, m : RawMeasurements, target : TargetDescriptors]
    /\ modifier = NoValue
    /\ x = NoValue
    /\ score = NoValue
    /\ pc = "call"
    /\ current = NoValue
    /\ analysis = <<>>
    /\ frame = NoValue
    /\ OracleIdle
    /\ ThreadsIdle

\* one call of a named objective on a candidate that parses: the lazy
\* initialisation, the modifiers, the list handed to gmean, the mean
CallNamedObjective ==
    /\ pc = "call"
    /\ globals' = objective_globals(args.fn, globals)
    /\ modifier' = named_objective(args.fn, args.m, args.target).modifiers
    /\ score' = named_objective(args.fn, args.m, args.target).score_lst
    /\ call' = TheCall(args.fn, SampleMolecule, None)
    /\ ret' = Toolkit("gmean")
    /\ ncalls' = ncalls + 1
    /\ pc' = "done"
    /\ UNCHANGED <<current, analysis, frame, args, x, fscores, threadVars>>

NextMPO == CallNamedObjective

SpecMPO == InitMPO /\ [][NextMPO]_vars

----------------------------------------------------------------------------
(* Concurrent first calls.  Each thread makes one call of SA, drd2 or gsk3b; *)
(* a thread switch can fall between any two of the steps below (the        *)
(* interpreter releases its lock between bytecodes and around file I/O).   *)
(*   check  : line 357 / 446 / 615, the test of the global                 *)
(*   load   : lines 337-340 / 415-424 / 594-603, the read of the pickle    *)
(*   store  : line 349 / 448 / 617, the assignment of the final value      *)
(*   use    : the scoring itself                                           *)

Threads == 1..NumThreads

Artifacts == {"fpscores", "drd2", "gsk3b"}

\* the artifact behind an entry point, and the global that holds a model
ArtifactOf(fn) ==
    IF fn = "SA" THEN "fpscores" ELSE IF fn = "drd2" THEN "drd2" ELSE "gsk3b"

ModelGlobal(fn) == IF fn = "drd2" THEN "drd2_model" ELSE "gsk3_model"

\* The objectives whose guarded block assigns two names, in the order of
\* the assignments: lines 806-807 and 848-849.  The guard name comes first.
AssignOrder ==
    [osimertinib_mpo |-> <<"osimertinib_fp_fcfc4", "osimertinib_fp_ecfc6">>,
     ranolazine_mpo |-> <<"ranolazine_fp", "fluorine_counter">>]

LazyObjectives == DOMAIN AssignOrder

\* the position of a thread before the k-th assignment of a guarded block
AssignPc == <<"assign1", "assign2">>

\* lines 357, 446, 615, 803, 845: the lazy test finds nothing loaded
NotLoaded(fn, fs, g) ==
    IF fn = "SA" THEN fs.tag = "None"
    ELSE IF fn \in LazyObjectives THEN ~Defined(g, Objectives[fn].guard)
    ELSE ~Defined(g, ModelGlobal(fn))

InitLazy ==
    /\ tpc = [t \in Threads |-> "idle"]
    /\ tfn \in [Threads -> {"SA", "drd2", "gsk3b"}]
    /\ tret = [t \in Threads |-> Value(0)]
    /\ loads = [a \in Artifacts |-> 0]
    /\ fscores = FscoresNone
    /\ globals = NoGlobals
    /\ call = NoValue /\ ret = NoValue /\ ncalls = 0
    /\ ModifierIdle
    /\ current = NoValue
    /\ analysis = <<>>
    /\ frame = NoValue
    /\ pc = "idle"

ThreadFrame == UNCHANGED <<current, analysis, frame, pc, modVars, oracleVars, tfn>>

\* the thread enters its entry point
Enter(t) ==
    /\ tpc[t] = "idle"
    /\ tpc' = [tpc EXCEPT ![t] = "check"]
    /\ UNCHANGED <<fscores, globals, tret, loads>>
    /\ ThreadFrame

Check(t) ==
    /\ tpc[t] = "check"
    /\ tpc' = [tpc EXCEPT ![t] =
                 IF ~NotLoaded(tfn[t], fscores, globals) THEN "use"
                 ELSE IF tfn[t] \in LazyObjectives THEN AssignPc[1]
                 ELSE "load"]
    /\ UNCHANGED <<fscores, globals, tret, loads>>
    /\ ThreadFrame

\* pickle.load: line 340 assigns the loaded rows to _fscores at once; the
\* classifier loaders return the model to the caller
Load(t) ==
    /\ tpc[t] = "load"
    /\ loads' = [loads EXCEPT ![ArtifactOf(tfn[t])] = @ + 1]
    /\ fscores' = IF tfn[t] = "SA" THEN FscoresList ELSE fscores
    /\ tpc' = [tpc EXCEPT ![t] = "store"]
    /\ UNCHANGED <<globals, tret>>
    /\ ThreadFrame

Store(t) ==
    /\ tpc[t] = "store"
    /\ fscores' = IF tfn[t] = "SA" THEN FscoresDict ELSE fscores
    /\ globals' = IF tfn[t] = "SA" THEN globals
                  ELSE Define(globals, ModelGlobal(tfn[t]) :> "loaded")
    /\ tpc' = [tpc EXCEPT ![t] = "use"]
    /\ UNCHANGED <<tret, loads>>
    /\ ThreadFrame

\* lines 806-807, 848-849: one assignment of a guarded block; the toolkit
\* computes the value between two assignments
Assign(t) ==
    \E k \in DOMAIN AssignPc :
        /\ tpc[t] = AssignPc[k]
        /\ globals' = Define(globals, AssignOrder[tfn[t]][k] :> "set")
        /\ tpc' = [tpc EXCEPT ![t] =
                     IF k = Len(AssignOrder[tfn[t]]) THEN "use" ELSE AssignPc[k + 1]]
        /\ UNCHANGED <<fscores, tret, loads>>
        /\ ThreadFrame

\* lines 360-410 and 450-456, 619-625 on a molecule that parses; line 367
\* calls _fscores.get, which the loaded list of rows does not have; lines
\* 819-820 and 860-861 read the names of the guarded block
Use(t) ==
    /\ tpc[t] = "use"
    /\ tret' = [tret EXCEPT ![t] =
                  IF tfn[t] = "SA"
                  THEN IF fscores.tag = "dict"
                       THEN calculateScore(SampleMolecule.mol, fscores.val)
                       ELSE Raise("AttributeError")
                  ELSE IF tfn[t] \in LazyObjectives
                  THEN IF \A n \in Objectives[tfn[t]].defines : Defined(globals, n)
                       THEN Toolkit("gmean")
                       ELSE Raise("NameError")
                  ELSE Toolkit("predict_proba")]
    /\ tpc' = [tpc EXCEPT ![t] = "done"]
    /\ UNCHANGED <<fscores, globals, loads>>
    /\ ThreadFrame

NextLazy ==
    \E t \in Threads : Enter(t) \/ Check(t) \/ Load(t) \/ Store(t) \/ Use(t)

SpecLazy == InitLazy /\ [][NextLazy]_vars

\* Concurrent first calls of SA and of the objectives with a guarded block.
InitGuarded ==
    /\ tpc = [t \in Threads |-> "idle"]
    /\ tfn \in [Threads -> {"SA"} \cup LazyObjectives]
    /\ tret = [t \in Threads |-> Value(0)]
    /\ loads = [a \in Artifacts |-> 0]
    /\ fscores = FscoresNone
    /\ globals = NoGlobals
    /\ call = NoValue /\ ret = NoValue /\ ncalls = 0
    /\ ModifierIdle
    /\ current = NoValue
    /\ analysis = <<>>
    /\ frame = NoValue
    /\ pc = "idle"

NextGuarded ==
    \E t \in Threads :
        Enter(t) \/ Check(t) \/ Load(t) \/ Store(t) \/ Assign(t) \/ Use(t)

SpecGuarded == InitGuarded /\ [][NextGuarded]_vars

----------------------------------------------------------------------------
(* The tree analyzer's specification: any search result, one call. *)

\* A key that is absent has no value: the model gives it a fixed placeholder
\* (price 0, no trees), which no line of tree_analysis reads.  Forests next to
\* an 'error' or 'price' key are kept smaller than the traversed ones.
InitTree ==
    /\ \E k \in KeySets, n \in 0..MaxNodes, p \in PriceVals :
         /\ "trees" \notin k => n = 0
         /\ k # {"trees"} => n <= MaxIgnoredNodes
         /\ "price" \notin k => p = 0
         /\ \E parent \in ParentMaps(n), ppg \in [1..n -> PpgVals],
                pl \in [1..n -> PlausibilityVals] :
                current = SearchResult(k, p, Forest(n, parent, ppg, pl))
    /\ analysis = <<>>
    /\ frame = NoValue
    /\ pc = "call"
    /\ ModifierIdle
    /\ OracleIdle
    /\ ThreadsIdle

CallTreeAnalysis ==
    /\ pc = "call"
    /\ analysis' = tree_analysis(current)
    /\ pc' = "done"
    /\ UNCHANGED <<current, frame, modVars, fscores, globals, oracleVars, threadVars>>

NextTree == CallTreeAnalysis

SpecTree == InitTree /\ [][NextTree]_vars

----------------------------------------------------------------------------
(* The analyzer step by step: the call runs to the loop, the loop runs one  *)
(* pass at a time, and the statements after the loop return.  A started     *)
(* call keeps running, which is the fairness of SpecLoop.                   *)

StartAnalysis ==
    /\ pc = "call"
    /\ IF ReturnsEarly(current)
       THEN analysis' = tree_analysis(current) /\ frame' = frame /\ pc' = "done"
       ELSE analysis' = analysis /\ frame' = LoopEntry(current) /\ pc' = "loop"
    /\ UNCHANGED <<current, modVars, fscores, globals, oracleVars, threadVars>>

Iterate ==
    /\ pc = "loop"
    /\ frame' = Iteration(current, frame)
    /\ current' = InputAfterPass(current, frame)
    /\ pc' = IF frame'.broke THEN "exit" ELSE "loop"
    /\ UNCHANGED <<analysis, modVars, fscores, globals, oracleVars, threadVars>>

FinishAnalysis ==
    /\ pc = "exit"
    /\ analysis' = ReturnFrom(current, frame)
    /\ pc' = "done"
    /\ UNCHANGED <<current, frame, modVars, fscores, globals, oracleVars, threadVars>>

NextLoop == StartAnalysis \/ Iterate \/ FinishAnalysis

SpecLoop == InitTree /\ [][NextLoop]_vars /\ WF_vars(NextLoop)

----------------------------------------------------------------------------
(* askcos, oracle.py:1134-1197.  The server answers every request; what it  *)
(* answers is not the caller's choice.  The price endpoint answers with a  *)
(* dict that has the key 'price'.  frame holds the arguments and the log   *)
(* of the requests and responses, current holds resp.json().               *)

SupportedOutputs == {"num_step", "plausibility", "synthesizability", "price"}

\* the values of 'output' that are tried: the supported ones and another
Outputs == SupportedOutputs \cup {"confidence"}

\* a response of /api/price/
PriceResponse(p) == SearchResult({"price"}, p, Forest(0, <<>>, <<>>, <<>>))

\* mutant: the loop runs on after a response without 'error'
TrialsContinue_AfterSuccess(resp_json, issued, num_trials) ==
    issued < num_trials

\* lines 1178-1182: another treebuilder request follows the response
\* resp_json of request number 'issued' of range(num_trials)
TrialsContinue(resp_json, issued, num_trials) ==
    "error" \in resp_json.keys /\ issued < num_trials

\* lines 1190-1197: the component that 'output' selects
SelectOutput(output, a) ==
    CASE output = "plausibility" -> a[4]
      [] output = "num_step" -> a[3]
      [] output = "synthesizability" -> a[5]
      [] output = "price" -> a[6]

InitAskcos ==
    /\ frame \in [output : Outputs, num_trials : 0..MaxTrials,
                  requests : {<<>>}, responses : {<<>>}]
    /\ pc = "askcos"
    /\ current = NoValue
    /\ analysis = <<>>
    /\ ModifierIdle
    /\ OracleIdle
    /\ ThreadsIdle

AskcosFrame == UNCHANGED <<modVars, fscores, globals, call, ncalls, threadVars>>

\* lines 1143-1144
CheckOutput ==
    /\ pc = "askcos"
    /\ IF frame.output \notin SupportedOutputs
       THEN ret' = Raise("NameError") /\ pc' = "raised"
       ELSE ret' = ret /\ pc' = "price"
    /\ UNCHANGED <<current, analysis, frame>>
    /\ AskcosFrame

\* lines 1148-1153: the price request and the test of its answer
RequestPrice ==
    /\ pc = "price"
    /\ \E p \in PriceVals :
          /\ current' = PriceResponse(p)
          /\ pc' = IF p = 0 /\ 0 < frame.num_trials THEN "treebuilder" ELSE "analyse"
    /\ frame' = [frame EXCEPT !.requests = Append(@, "price"),
                              !.responses = Append(@, current')]
    /\ UNCHANGED <<analysis, ret>>
    /\ AskcosFrame

\* lines 1178-1182: one pass of the loop
RequestTreebuilder ==
    /\ pc = "treebuilder"
    /\ \E k \in {{"error"}, {"trees"}}, n \in 0..MaxIgnoredNodes :
          /\ "trees" \notin k => n = 0
          /\ \E parent \in ParentMaps(n), ppg \in [1..n -> PpgVals],
                 pl \in [1..n -> PlausibilityVals] :
                 current' = SearchResult(k, 0, Forest(n, parent, ppg, pl))
    /\ frame' = [frame EXCEPT !.requests = Append(@, "treebuilder"),
                              !.responses = Append(@, current')]
    /\ pc' = IF TrialsContinue(current', Len(frame.requests), frame.num_trials)
             THEN "treebuilder" ELSE "analyse"
    /\ UNCHANGED <<analysis, ret>>
    /\ AskcosFrame

\* lines 1188-1197 (save_json is False)
AnalyseResponse ==
    /\ pc = "analyse"
    /\ analysis' = tree_analysis(current)
    /\ ret' = Value(SelectOutput(frame.output, analysis'))
    /\ pc' = "done"
    /\ UNCHANGED <<current, frame>>
    /\ AskcosFrame

NextAskcos == CheckOutput \/ RequestPrice \/ RequestTreebuilder \/ AnalyseResponse

SpecAskcos == InitAskcos /\ [][NextAskcos]_vars

----------------------------------------------------------------------------
(* Properties of tree_analysis, checked under SpecTree. *)

Returned == pc = "done"

\* the call took the traversal path: no 'error', no 'price', no priced root
OnTraversalPath ==
    /\ Returned
    /\ current.keys = {"trees"}
    /\ ~(Len(current.trees) # 0 /\ current.node[current.trees[1]].ppg # 0)

C2_PriceReturn ==
    (Returned /\ "error" \notin current.keys /\ "price" \in current.keys)
        => analysis = <<0, EmptyStatus, 0, 1, 1, current.price>>

C2_Witness ==
    /\ Returned
    /\ "error" \notin current.keys /\ "price" \in current.keys
    /\ current.price = 0
    /\ analysis = <<0, EmptyStatus, 0, 1, 1, 0>>

EmptyTrees ==
    Returned /\ current.keys = {"trees"} /\ current.trees = <<>>

\* C3 as stated: an empty 'trees' list (no 'error', no 'price') yields
\* (0, {}, 11, -1, 0, -1).
C3_Original ==
    EmptyTrees => analysis = <<0, EmptyStatus, 11, -1, 0, -1>>

\* C3 amended: an empty 'trees' list (no 'error', no 'price') yields
\* (0, {0: 1}, 11, 0, 0, -1): depthStatus keeps its initial entry {0: 1} and
\* the plausibility is the running product 1 masked by synthesizable = 0.
C3_EmptyTrees ==
    EmptyTrees => analysis = <<0, (0 :> 1), 11, 0, 0, -1>>

C3_Witness ==
    EmptyTrees /\ analysis[2] = (0 :> 1) /\ analysis[4] = 0

\* C4: with no 'error' and no 'price', a non-empty 'trees' list whose first
\* root has ppg # 0 yields (0, {}, 0, 1, 1, rootPpg); no child is traversed.
C4_RootShortCircuit ==
    (/\ Returned
     /\ current.keys = {"trees"}
     /\ Len(current.trees) # 0
     /\ current.node[current.trees[1]].ppg # 0)
        => analysis = <<0, EmptyStatus, 0, 1, 1, current.node[current.trees[1]].ppg>>

C4_Witness ==
    /\ Returned
    /\ current.keys = {"trees"}
    /\ Len(current.trees) > 1
    /\ current.node[current.trees[1]].ppg # 0
    /\ current.node[current.trees[1]].children # <<>>
    /\ current.node[current.trees[Len(current.trees)]].ppg = 0
    /\ analysis = <<0, EmptyStatus, 0, 1, 1, 3>>

\* the result carries the step-count fallback: stepCount 11 with price -1
CarriesFallback == analysis[3] = 11 /\ analysis[6] = -1

\* C5: on the traversal path stepCount = floor(lastDepth - 0.5), replaced by
\* the fallback (stepCount 11, price -1) exactly when it is 0, which is exactly
\* when no level was expanded; so a result carrying the fallback has
\* synthesizable = 0 and a result with synthesizable = 1 has stepCount >= 1
\* and no fallback.
C5_FallbackMeansUnsynthesizable ==
    OnTraversalPath =>
        LET lastDepth == LoopExit(current).depth
            steps == (lastDepth - 1) \div 2
            expanded == DOMAIN analysis[2] # {0}
        IN  /\ analysis[3] = (IF steps = 0 THEN 11 ELSE steps)
            /\ CarriesFallback <=> steps = 0
            /\ steps = 0 <=> ~expanded
            /\ CarriesFallback => analysis[5] = 0
            /\ analysis[5] = 1 => (analysis[3] >= 1 /\ ~CarriesFallback)

\* C6: on the traversal path synthesizable = 1 iff depthStatus holds more
\* than one depth level, the returned plausibility is the running product
\* times synthesizable, and so it is 0 whenever synthesizable = 0.
C6_PlausibilityMasked ==
    OnTraversalPath =>
        /\ analysis[5] \in {0, 1}
        /\ analysis[5] = 1 <=> Cardinality(DOMAIN analysis[2]) > 1
        /\ analysis[4] = LoopExit(current).p_score * analysis[5]
        /\ analysis[5] = 0 => analysis[4] = 0

C6_Witness ==
    /\ OnTraversalPath
    /\ analysis[5] = 1
    /\ Cardinality(DOMAIN analysis[2]) = 3
    /\ analysis[4] = 4

\* the node whose 'children' list holds node i, 0 for a root
ParentIn(cur, i) ==
    LET holders == {j \in DOMAIN cur.node :
                      \E k \in 1..Len(cur.node[j].children) :
                          cur.node[j].children[k] = i}
    IN  IF holders = {} THEN 0 ELSE CHOOSE j \in holders : TRUE

\* the tree level of node i: 0 for a root, one more than its parent's
RECURSIVE LevelOf(_, _)
LevelOf(cur, i) ==
    IF ParentIn(cur, i) = 0 THEN 0 ELSE 1 + LevelOf(cur, ParentIn(cur, i))

\* the root of the tree that holds node i
RECURSIVE RootOf(_, _)
RootOf(cur, i) ==
    IF ParentIn(cur, i) = 0 THEN i ELSE RootOf(cur, ParentIn(cur, i))

\* the nodes of the first tree
FirstTreeNodes(cur) ==
    IF cur.trees = <<>> THEN {}
    ELSE {i \in DOMAIN cur.node : RootOf(cur, i) = cur.trees[1]}

\* the nodes of the first tree at tree level l
NodesAtLevel(cur, l) == {i \in FirstTreeNodes(cur) : LevelOf(cur, i) = l}

RECURSIVE ProductOfPlausibility(_, _)
ProductOfPlausibility(cur, S) ==
    IF S = {} THEN 1
    ELSE LET i == CHOOSE j \in S : TRUE
         IN  cur.node[i].plausibility * ProductOfPlausibility(cur, S \ {i})

RECURSIVE SumOfPpg(_, _)
SumOfPpg(cur, S) ==
    IF S = {} THEN 0
    ELSE LET i == CHOOSE j \in S : TRUE
         IN  cur.node[i].ppg + SumOfPpg(cur, S \ {i})

\* C17: on the traversal path with a first tree whose root has ppg = 0, the
\* running plausibility product is the product of the 'plausibility' fields
\* of all nodes at odd tree levels (depths 0.5, 1.5, ...) and the running
\* price is the sum of the 'ppg' fields of all nodes at even tree levels >= 2
\* (depths 1.0, 2.0, ...); no node contributes to both, the root to neither.
C17_LevelAccounting ==
    (OnTraversalPath /\ Len(current.trees) # 0) =>
        LET st == LoopExit(current)
            odd == {i \in FirstTreeNodes(current) : LevelOf(current, i) % 2 = 1}
            even == {i \in FirstTreeNodes(current) :
                        LevelOf(current, i) % 2 = 0 /\ LevelOf(current, i) >= 2}
        IN  /\ st.p_score = ProductOfPlausibility(current, odd)
            /\ st.price = SumOfPpg(current, even)
            /\ analysis[4] = ProductOfPlausibility(current, odd) * analysis[5]
            /\ analysis[6] = (IF analysis[3] = 11 THEN -1 ELSE SumOfPpg(current, even))

\* a chain of four nodes below an unpriced root, every other node with
\* ppg 3 and plausibility 2: levels 1 and 3 give 2 * 2, level 2 gives 3
C17_Witness ==
    /\ OnTraversalPath
    /\ Cardinality(FirstTreeNodes(current)) = 4
    /\ NodesAtLevel(current, 3) # {}
    /\ \A i \in FirstTreeNodes(current) \ {current.trees[1]} :
          current.node[i].ppg = 3 /\ current.node[i].plausibility = 2
    /\ current.node[current.trees[1]].plausibility = 2
    /\ analysis[4] = 4
    /\ analysis[6] = 3

\* cur with the nodes outside the set first changed: their 'ppg' set to pg,
\* their 'plausibility' to pl, and their children dropped when leaves is TRUE
OtherTreesChanged(cur, first, pg, pl, leaves) ==
    [cur EXCEPT !.node =
        [i \in DOMAIN cur.node |->
            IF i \in first THEN cur.node[i]
            ELSE [ppg |-> pg, plausibility |-> pl,
                  children |-> IF leaves THEN <<>> ELSE cur.node[i].children]]]

\* C18: tree_analysis uses only the first tree of 'trees' as the working
\* frontier: search results whose 'trees' lists have the same length and the
\* same first tree yield identical outputs, and numPaths on the traversal
\* path is the length of 'trees'.
C18_FirstTreeOnly ==
    (Returned /\ current.keys = {"trees"}) =>
        /\ LET first == FirstTreeNodes(current)
           IN  first # DOMAIN current.node =>
                 \A pg \in PpgVals, pl \in PlausibilityVals, leaves \in BOOLEAN :
                   tree_analysis(OtherTreesChanged(current, first, pg, pl, leaves))
                       = analysis
        /\ OnTraversalPath => analysis[1] = Len(current.trees)

\* two trees, the first expanded below an unpriced root, the second with a
\* priced root and a child of its own
C18_Witness ==
    /\ OnTraversalPath
    /\ Len(current.trees) = 2
    /\ current.node[current.trees[1]].children # <<>>
    /\ current.node[current.trees[2]].children # <<>>
    /\ current.node[current.trees[2]].ppg # 0
    /\ analysis[1] = 2
    /\ Cardinality(DOMAIN analysis[2]) = 2

\* C19: after the traversal, for every depth d > 0 depthStatus has key d
\* if and only if the first tree has a node at tree level 2d, depthStatus[d]
\* is then the number of nodes at that level, and the recorded positive depths
\* are contiguous from 0.5 up to lastDepth - 0.5 (depths in half steps here).
C19_DepthStatus ==
    OnTraversalPath =>
        LET depthStatus == analysis[2]
            lastDepth == LoopExit(current).depth
        IN  /\ \A d \in 1..(MaxNodes + 1) :
                  d \in DOMAIN depthStatus <=> NodesAtLevel(current, d) # {}
            /\ \A d \in DOMAIN depthStatus \ {0} :
                  depthStatus[d] = Cardinality(NodesAtLevel(current, d))
            /\ DOMAIN depthStatus \ {0} = 1..(lastDepth - 1)

\* two nodes at level 1 and one at level 2
C19_Witness ==
    /\ OnTraversalPath
    /\ analysis[2] = (0 :> 1) @@ (1 :> 2) @@ (2 :> 1)

----------------------------------------------------------------------------
(* Properties of the analyzer's loop, checked under SpecLoop. *)

\* the height of the first tree: the largest tree level of its nodes
HeightOfFirstTree(cur) ==
    CHOOSE h \in 0..MaxNodes :
        /\ NodesAtLevel(cur, h) # {}
        /\ \A l \in (h + 1)..(MaxNodes + 1) : NodesAtLevel(cur, l) = {}

\* C20: the level-by-level traversal terminates for every finite tree: the
\* loop stops at the first level where the frontier has no children, after
\* exactly (height of the first tree + 1) passes, one pass for an empty
\* 'trees' list.
C20_LoopTerminates ==
    /\ <>(pc = "done")
    /\ [](pc = "exit" =>
            /\ frame.iterations = (IF current.trees = <<>> THEN 1
                                   ELSE HeightOfFirstTree(current) + 1)
            /\ NodesAtLevel(current, frame.depth) = {}
            /\ \A l \in 1..(frame.depth - 1) : NodesAtLevel(current, l) # {})

\* the loop has left a chain of four nodes after four passes
C20_Witness ==
    /\ pc = "exit"
    /\ Cardinality(FirstTreeNodes(current)) = 4
    /\ HeightOfFirstTree(current) = 3
    /\ frame.iterations = 4

\* C21: tree_analysis never mutates its input: on every path (error, price,
\* short-circuit, traversal) no step of the call changes the search result
\* or any node's ppg, plausibility or children list.
C21_InputNeverMutated == [][current' = current]_vars

\* a returned traversal whose second pass met two nodes, one of them with a
\* child
C21_Witness ==
    /\ OnTraversalPath
    /\ frame # NoValue
    /\ 2 \in DOMAIN analysis[2]
    /\ analysis[2][1] = 2

----------------------------------------------------------------------------
(* Properties of the modifiers, checked under SpecMod. *)

\* the line through (lower_x, low_score) and (upper_x, high_score) at v
Interpolation(a, v) ==
    RAdd(a.low_score,
         RDiv(RMul(RSub(a.high_score, a.low_score), RSub(v, a.lower_x)),
              RSub(a.upper_x, a.lower_x)))

Applied(kind) == pc = "done" /\ args.kind = kind

\* v lies at p or beyond it, on the side away from q
AtOrBeyond(v, p, q) == IF RLt(q, p) THEN RLe(p, v) ELSE RLe(v, p)

RECURSIVE Nested(_, _)
Nested(ms, v) ==
    IF ms = <<>> THEN v
    ELSE Call(ms[Len(ms)], Nested(SubSeq(ms, 1, Len(ms) - 1), v))

\* the sequence ms with m inserted after its first i elements
InsertAt(ms, i, m) == SubSeq(ms, 1, i) \o <<m>> \o SubSeq(ms, i + 1, Len(ms))

\* C11: ChainedModifier([m1..mk]) applied to x equals mk(...m2(m1(x))): the
\* stages run left to right, the empty chain returns x unchanged, and
\* inserting LinearModifier(1.0) at any position does not change the result.
C11_ChainedComposition ==
    Applied("Chained") =>
        LET ms == modifier.modifiers
        IN  /\ score = Nested(ms, x)
            /\ ms = <<>> => score = x
            /\ \A i \in 0..Len(ms) :
                 Call(ChainedModifier(InsertAt(ms, i, LinearModifier(Rat(1, 1)))), x)
                     = score

\* a chain of three stages whose result depends on their order:
\* 1 -> 2 -> 1 - |0.5 - 2| = -0.5 -> 0.25, while right to left gives 0
C11_Witness ==
    /\ Applied("Chained")
    /\ args.modifiers = << [kind |-> "Linear", slope |-> Rat(2, 1)],
                           [kind |-> "Absolute", target_value |-> Rat(1, 2)],
                           [kind |-> "Linear", slope |-> Rat(-1, 2)] >>
    /\ x = Rat(1, 1)
    /\ score = Rat(1, 4)

\* the parameters that the specification calls invalid
InvalidParameters(a) ==
    CASE a.kind \in {"Clipped", "SmoothClipped"} ->
            ~RLt(a.low_score, a.high_score) \/ a.upper_x = a.lower_x
      [] a.kind = "Thresholded" -> a.threshold = Rat(0, 1)
      [] a.kind \in {"Gaussian", "MinMaxGaussian"} -> a.sigma = Rat(0, 1)
      [] OTHER -> FALSE

\* C12: every modifier variant validates its parameters in its constructor:
\* on invalid parameters (low_score >= high_score, upper_x = lower_x,
\* threshold = 0, sigma = 0) the constructor fails with a ConfigurationError,
\* and so no constructed modifier fails or yields an undefined value when it
\* is called.
C12_ValidatedAtConstruction ==
    /\ pc = "failed" => modifier = Raise("ConfigurationError")
    /\ pc \in {"apply", "done"} => ~InvalidParameters(args)
    /\ pc = "done" => ~Undefined(score)

\* e^0, the value 1.0
ExactlyOne == ExpOf(Rat(0, 1))

----------------------------------------------------------------------------
(* Properties of the SA estimator, checked under SpecSA. *)

Called(fn) == call # NoValue /\ call.fn = fn

\* C8: SA is total: it returns the sentinel 100 when s is None or does not
\* parse, and for every text that parses, a molecule without atoms and
\* fragments included, a value in [1, 10] without raising.
C8_SATotal ==
    Called("SA") =>
        IF call.s.kind # "mol"
        THEN ret = Value(100000)
        ELSE ret.kind = "value" /\ 1000 <= ret.v /\ ret.v <= 10000

\* the value of step 4, rescaled to the 1..10 scale, for molecule m
RescaledValue(m) ==
    LET sums == SumOver(NonzeroElements(m), m, FscoresDict.val)
    IN  Rescale(sums.score1 \div sums.nf + Score2(m) + Score3(m))

\* step 5 as the specification words it: 8 + ln(final - 8 + 1), then the clamp
SmoothedAsSpecified(final) ==
    Clamp(IF final > 8000 THEN 8000 + LnMilli(final - 8000 + 1000) ELSE final)

\* C16: a rescaled value final > 8 is replaced by 8 + ln(final - 8 + 1)
\* before clamping, so every structure whose rescaled value exceeds 8 gets
\* a final score in [8, 10], and the final score is monotonically
\* non-decreasing in the rescaled value.
C16_SmoothingKeepsAbove8 ==
    (Called("SA") /\ call.s.kind = "mol" /\ ret.kind = "value") =>
        LET final == RescaledValue(call.s.mol)
        IN  /\ ret.v = SmoothedAsSpecified(final)
            /\ final > 8000 => (8000 <= ret.v /\ ret.v <= 10000)
            /\ \A lower \in (final - MonotoneWindow)..final :
                   Clamp(Smooth(lower)) <= ret.v

----------------------------------------------------------------------------
(* Properties of the entry points, checked under SpecOracle. *)

\* the fallback documented for an entry point, in thousandths
FallbackOf(fn) ==
    IF fn = "SA" THEN 100000
    ELSE IF fn = "penalized_logp" THEN -100000
    ELSE 0

\* the last call was given a text that does not parse
UnparseableCall ==
    /\ call # NoValue
    /\ call.s = Unparseable \/ (call.fn = "similarity" /\ call.b = Unparseable /\ call.s # None)

\* C7: for a text that fails to parse every public scoring entry point
\* returns its documented fallback value (0.0 for similarity-like scores, a
\* fixed worst-case constant for difficulty-like ones) and none raises.
C7_FallbackOnUnparseable ==
    UnparseableCall => (ret.kind = "value" /\ ret.v = FallbackOf(call.fn))

\* C15: an MPO evaluator constructed with the 'arithmetic' mean and an empty
\* sub-term list returns the NaN value for every candidate string, also for
\* one that fails to parse, and never raises.
C15_EmptyArithmeticMean ==
    (Called("MPO_meta") /\ call.b = "arithmetic") => ret = NanResult

C15_Witness ==
    /\ Called("MPO_meta")
    /\ call.b = "arithmetic"
    /\ call.s = Unparseable
    /\ ret = NanResult

\* the cached name n is set, to value v
CachedAs(n, v) == Defined(globals, n) /\ globals[n] = v

\* C22: the cached references are initialised once and never change
\* afterwards, so after any sequence of deco_hop and scaffold_hop calls
\* deco_hop evaluates with its own scorers (deco1, deco2 and a scaffold scorer
\* with inverse=False, all defined), scaffold_hop with its own (a deco scorer
\* and a scaffold scorer with inverse=True), and neither fails because a
\* cached name it needs was never set.
C22_CachedReferencesStable ==
    /\ [][\A n \in DOMAIN globals :
             n \in DOMAIN globals' /\ globals'[n] = globals[n]]_vars
    /\ []((Called("deco_hop") /\ call.s.kind = "mol") =>
             /\ ret.kind # "raise"
             /\ Defined(globals, "deco1_smarts_scoring")
             /\ Defined(globals, "deco2_smarts_scoring")
             /\ CachedAs("scaffold_smarts_scoring", "inverse=False"))
    /\ []((Called("scaffold_hop") /\ call.s.kind = "mol") =>
             /\ ret.kind # "raise"
             /\ Defined(globals, "deco_smarts_scoring")
             /\ CachedAs("scaffold_smarts_scoring", "inverse=True"))

----------------------------------------------------------------------------
(* Properties of the named objectives' sub-scores, checked under SpecMPO. *)

\* a number between 0 and 1: a rational in that range, or e^q with q <= 0
InUnitInterval(v) ==
    IF IsRational(v) THEN RLe(Rat(0, 1), v) /\ RLe(v, Rat(1, 1))
    ELSE v[3] = "exp" /\ v[1] <= 0

\* the objectives the statement lists by name
ListedObjectives ==
    {"osimertinib_mpo", "fexofenadine_mpo", "ranolazine_mpo", "sitagliptin_mpo",
     "valsartan_smarts"}

\* entry i of the list handed to gmean is modifier(raw measurement) where
\* the objective constructed a modifier for that measurement
EntersModified(i) ==
    score[i].of \in DOMAIN modifier
        => score[i].v = Call(modifier[score[i].of], args.m[score[i].of])

\* C23: in every named objective, each sub-term for which the objective
\* constructs a modifier enters the mean as modifier(raw measurement), never
\* as the raw measurement, and every sub-score aggregated by osimertinib,
\* fexofenadine, ranolazine, sitagliptin and valsartan lies in [0, 1].
C23_ModifiedSubTerms ==
    pc = "done" =>
        \A i \in DOMAIN score :
            /\ EntersModified(i)
            /\ args.fn \in ListedObjectives => InUnitInterval(score[i].v)

----------------------------------------------------------------------------
(* Properties of the formula parser, checked under SpecFormula. *)

\* f is a concatenation of tokens: an uppercase letter, lowercase letters,
\* digits
WellFormed(f) ==
    \A i \in 1..Len(f) :
        /\ f[i] \in Uppercase \cup Lowercase \cup Digits
        /\ i = 1 => f[i] \in Uppercase
        /\ f[i] \in Lowercase => f[i - 1] \in Uppercase \cup Lowercase

\* the tokens of a well-formed formula, cut at its uppercase letters
TokenStarts(f) == SortedSeq({i \in 1..Len(f) : f[i] \in Uppercase})

TokenPairs(f) ==
    LET starts == TokenStarts(f)
        token(m) == SubSeq(f, starts[m],
                           IF m < Len(starts) THEN starts[m + 1] - 1 ELSE Len(f))
        digits(m) == SelectSeq(token(m), LAMBDA c : c \in Digits)
    IN  [m \in 1..Len(starts) |->
            <<SelectSeq(token(m), LAMBDA c : c \notin Digits),
              IF digits(m) = <<>> THEN 1 ELSE int(digits(m))>>]

\* C14: parse_molecular_formula accepts exactly the concatenations of tokens
\* (one uppercase letter, optional lowercase letters, optional digits): for
\* such a string it returns the (element, count) pairs in order, count 1
\* when the digits are absent ("C2H6" gives [("C", 2), ("H", 6)], total 8);
\* for any other string it signals a FormulaParseError and returns no
\* partial list.
C14_FormulaParsing ==
    Called("parse_molecular_formula") =>
        IF WellFormed(call.s)
        THEN /\ ret = ListValue(TokenPairs(call.s))
             /\ call.s = <<"C", "2", "H", "6">> =>
                  /\ ret.what = << <<(<<"C">>), 2>>, <<(<<"H">>), 6>> >>
                  /\ total_atom_num(ret.what) = 8
        ELSE ret.kind = "raise" /\ ret.what = "FormulaParseError"

----------------------------------------------------------------------------
(* Properties of askcos, checked under SpecAskcos. *)

\* the treebuilder responses received so far
TreebuilderResponses == Tail(frame.responses)

\* the component of the error sentinel that 'output' selects
SentinelOf(output) == IF output = "num_step" THEN 11 ELSE -1

----------------------------------------------------------------------------
(* Properties of the lazy initialisation, checked under SpecLazy. *)

\* C9: with several threads making their first call concurrently each
\* shared artifact (the fragment table, the drd2 and gsk3b classifiers) is
\* loaded by a single winner: no artifact is ever loaded twice, and every
\* artifact in use has been loaded once.
C9_SingleWinner ==
    /\ \A a \in Artifacts : loads[a] <= 1
    /\ \A t \in Threads : tpc[t] \in {"use", "done"} => loads[ArtifactOf(tfn[t])] = 1

\* C24: with concurrent callers, a caller of calculateScore that finds the
\* fragment table set reads the built mapping and never the loaded rows,
\* and a caller of a lazily initialised objective that finds the guard name
\* set finds every cached name of the objective set: no call ends with the
\* AttributeError of the rows or the NameError of a missing name.
C24_NoPartialInitialisation ==
    \A t \in Threads :
        tpc[t] = "done" =>
            /\ tret[t] # Raise("AttributeError")
            /\ tret[t] # Raise("NameError")

====
